---- MODULE Spec2Model ----
(***************************************************************************)
(* Model of the HateCode experiments:                                      *)
(*   - baseline_cnn/baseline_cnn.py : main(), train(), predict() -- the    *)
(*     epoch loop with the checkpoint-on-improvement decision and the      *)
(*     final prediction pass (specification Spec);                         *)
(*   - KBert/data/helper.py : process() and the module-level script that   *)
(*     builds the POS / POS-tag JSON files and vocabularies                *)
(*     (specification SpecVocab).                                          *)
(*                                                                         *)
(* Strings that the code concatenates are sequences of pieces; "+" and     *)
(* f-string interpolation are sequence concatenation, so two paths are     *)
(* the same file exactly when they are the same sequence of pieces.        *)
(* Metric values (floats in [0,1]) are integers 0..MaxScore on a fixed     *)
(* scale; only their order and equality matter to the code.                *)
(***************************************************************************)
EXTENDS Integers, Sequences, FiniteSets, TLC

\* ---------------------------------------------------------------- bounds
MaxScore == 3        \* F1 takes the values 0..MaxScore
MaxEpochs == 3       \* --epochs ranges over 0..MaxEpochs
MaxRuns == 2         \* successive invocations of main() sharing one disk

\* ------------------------------------------------------- trainer state
VARIABLES
    pc,            \* position of the process: idle, train, eval, decide, load, predict, done
    run,           \* number of invocations of main() started so far
    args,          \* parsed command line: epochs, save_path, model_name
    epoch,         \* loop variable of "for epoch in range(args.epochs)"
    model,         \* in-memory parameter version of the model
    eval_result,   \* the dict built by the eval phase of the latest epoch
    fs,            \* files on disk: path -> content
    dirs,          \* directories on disk
    used,          \* parameter version the prediction pass ran with
    written,       \* history: paths written by the latest checkpoint decision
    saved,         \* history: weights last persisted by train() in this run
    best,          \* history: highest F1 evaluated in this run and the weights that reached it
    decision,      \* history: branch taken by the latest checkpoint decision
    resultSrc      \* history: result path -> weights whose evaluation it records

\* ------------------------------------------------- vocabulary-builder state
VARIABLES
    vpc,           \* position of the script: split, vocab, done
    split,         \* index into Splits of the file being processed
    i,             \* row index inside the current split
    pos,           \* process(): dict str(i) -> position list
    postag,        \* process(): dict str(i) -> tag list
    max_pos,       \* module global
    postag_vocab,  \* module global
    out,           \* files written by the script: name -> content
    data           \* history: per split, the outcome of nlp() on each row read so far

tvars == <<pc, run, args, epoch, model, eval_result, fs, dirs, used,
           written, saved, best, decision, resultSrc>>
vvars == <<vpc, split, i, pos, postag, max_pos, postag_vocab, out, data>>
vars == <<tvars, vvars>>

None == "none"

\* ------------------------------------------------------------- helpers
Max(a, b) == IF a >= b THEN a ELSE b

SetMax(S) == CHOOSE x \in S : \A y \in S : y <= x

Last(s) == s[Len(s)]

\* writing a file creates it or replaces its content
WriteFile(f, p, c) == [q \in DOMAIN f \cup {p} |-> IF q = p THEN c ELSE f[q]]

\* ---------------------------------------------------- paths (pieces)
ModelNames == {"baseline_bert", "cnn", "lstm"}

DefaultSavePath == <<".", "/", "out_models", "/">>

SavePaths == {DefaultSavePath, <<".", "/", "ckpt", "/">>}

TrainDefaultSavePath == <<".", "/", "out_models">>

PredictSavePath == <<".", "/", "out_models", "/">>

LogDir == <<".", "/", "log">>

ResultPath(name) == <<".", "/", "log", "/", "best_", name, "_result.json">>

CkptFile(name) == <<"best_", name, "_model.pt">>

\* the path torch.save() is given inside train()
TrainCkptPath(save_path, name) == save_path \o CkptFile(name)

\* the path main() looks at before predicting
PredictCkptPath(name) == PredictSavePath \o CkptFile(name)

\* os.path.exists / os.mkdir ignore a trailing separator
DirOf(p) == IF Len(p) > 1 /\ Last(p) = "/" THEN SubSeq(p, 1, Len(p) - 1) ELSE p

\* ------------------------------------------------------- model weights
InitialWeights(r) == [run |-> r, step |-> 0]

OptimizerStep(m) == [m EXCEPT !.step = @ + 1]

\* a checkpoint left in ./out_models/ by something other than these runs
ForeignWeights == [run |-> 0, step |-> 0]

\* no weights: nothing persisted yet, no prediction made yet
NoWeights == [run |-> 0, step |-> -1]

IsWeights(c) == DOMAIN c = {"run", "step"}

\* --------------------------------------------------------- evaluation
Scores == 0..MaxScore

\* accuracy, precision and recall: the two ends of the scale
AuxScores == {0, MaxScore}

\* the dicts the eval phase can build; the code reads only "f1", the other
\* three metrics are carried along and are enumerated together
EvalResults ==
    {[acc |-> a, f1 |-> f, precision |-> a, recall |-> a] : a \in AuxScores, f \in Scores}

NoResult == [acc |-> 0, f1 |-> 0, precision |-> 0, recall |-> 0]

\* history of the evaluations of one run: the highest F1 and every parameter
\* version whose evaluation produced it
NoBest == [f1 |-> -1, weights |-> {}]

RecordEval(b, f, w) ==
    IF f > b.f1 THEN [f1 |-> f, weights |-> {w}]
    ELSE IF f = b.f1 THEN [b EXCEPT !.weights = @ \cup {w}]
    ELSE b

\* variants of the comparison: overwrite on a tie, overwrite on any change
ShouldSaveOnTie(new, old) == new.f1 >= old.f1

ShouldSaveOnChange(new, old) == new.f1 # old.f1

\* the comparison that guards the overwrite
ShouldSave(new, old) == new.f1 > old.f1

\* ------------------------------------------------------------ trainer
TrainerInit ==
    /\ pc = "idle"
    /\ run = 0
    /\ \E sp \in SavePaths, mn \in ModelNames :
          args = [epochs |-> 0, save_path |-> sp, model_name |-> mn]
    /\ epoch = 0
    /\ model = InitialWeights(0)
    /\ eval_result = NoResult
    /\ \E stale \in BOOLEAN :
          fs = IF stale THEN [p \in {PredictCkptPath(n) : n \in ModelNames} |-> ForeignWeights]
                        ELSE << >>
    /\ dirs = {<<".">>}
    /\ used = NoWeights
    /\ written = {}
    /\ saved = NoWeights
    /\ best = NoBest
    /\ decision = None
    /\ resultSrc = << >>

\* main(): parse the arguments, create the directories, build the model.
\* The runs of one behaviour share --save_path and --model_name, which the
\* initial state draws; --epochs is drawn anew by every run.
StartRun ==
    /\ pc \in {"idle", "done"}
    /\ run < MaxRuns
    /\ \E e \in 0..MaxEpochs :
          /\ args' = [args EXCEPT !.epochs = e]
          /\ pc' = IF e > 0 THEN "train" ELSE "load"
    /\ dirs' = dirs \cup {DirOf(args.save_path), LogDir}
    /\ run' = run + 1
    /\ model' = InitialWeights(run + 1)
    /\ epoch' = 0
    /\ eval_result' = NoResult
    /\ used' = NoWeights
    /\ written' = {}
    /\ saved' = NoWeights
    /\ best' = NoBest
    /\ decision' = None
    /\ UNCHANGED <<fs, resultSrc>>

\* train(): the train phase, every batch of train_loader through the optimizer
TrainPhase ==
    /\ pc = "train"
    /\ model' = OptimizerStep(model)
    /\ pc' = "eval"
    /\ written' = {}
    /\ decision' = None
    /\ UNCHANGED <<run, args, epoch, eval_result, fs, dirs, used, saved, best, resultSrc>>

\* train(): the eval phase over the dev split
EvalPhase ==
    /\ pc = "eval"
    /\ \E r \in EvalResults :
          /\ eval_result' = r
          /\ best' = RecordEval(best, r.f1, model)
    /\ pc' = "decide"
    /\ UNCHANGED <<run, args, epoch, model, fs, dirs, used, written, saved, decision, resultSrc>>

\* train(): the checkpoint decision, then the next iteration of main()'s loop
CheckpointDecision ==
    /\ pc = "decide"
    /\ LET rp == ResultPath(args.model_name)
           cp == TrainCkptPath(TrainDefaultSavePath, args.model_name)
       IN  IF rp \notin DOMAIN fs
           THEN /\ fs' = WriteFile(fs, rp, eval_result)
                /\ resultSrc' = WriteFile(resultSrc, rp, model)
                /\ written' = {rp}
                /\ decision' = "first"
                /\ saved' = saved
           ELSE IF ShouldSave(eval_result, fs[rp])
           THEN /\ fs' = WriteFile(WriteFile(fs, cp, model), rp, eval_result)
                /\ resultSrc' = WriteFile(resultSrc, rp, model)
                /\ written' = {cp, rp}
                /\ decision' = "improved"
                /\ saved' = model
           ELSE /\ UNCHANGED <<fs, resultSrc, saved>>
                /\ written' = {}
                /\ decision' = IF eval_result.f1 = fs[rp].f1 THEN "equal" ELSE "lower"
    /\ epoch' = epoch + 1
    /\ pc' = IF epoch + 1 < args.epochs THEN "train" ELSE "load"
    /\ eval_result' = NoResult
    /\ UNCHANGED <<run, args, model, dirs, used, best>>

\* main(): load the checkpoint if the file exists
LoadBest ==
    /\ pc = "load"
    /\ LET p == PredictCkptPath(args.model_name)
       IN  model' = IF p \in DOMAIN fs THEN fs[p] ELSE model
    /\ pc' = "predict"
    /\ UNCHANGED <<run, args, epoch, eval_result, fs, dirs, used, written, saved, best, decision, resultSrc>>

\* variant of predict() that takes an optimizer step and saves the weights
PredictTraining ==
    /\ pc = "predict"
    /\ model' = OptimizerStep(model)
    /\ used' = model
    /\ fs' = WriteFile(fs, PredictCkptPath(args.model_name), model')
    /\ pc' = "done"
    /\ UNCHANGED <<run, args, epoch, eval_result, dirs, written, saved, best, decision, resultSrc>>

\* predict(): one forward pass over the test split
Predict ==
    /\ pc = "predict"
    /\ used' = model
    /\ pc' = "done"
    /\ UNCHANGED <<run, args, epoch, model, eval_result, fs, dirs, written, saved, best, decision, resultSrc>>

\* ------------------------------------------------- vocabulary builder
MaxRows == 2         \* rows read over the three splits together
MaxTokens == 2       \* longest Doc the tagger returns

Tags == {"NN", "VB"}

Splits == <<"train", "dev", "test">>

\* file_path of a split: train_file, dev_file, test_file
DataFile(sp) == <<Splits[sp], "_data.csv">>

\* file_path.replace("_data.csv", "")
Mode(file_path) == SelectSeq(file_path, LAMBDA piece : piece # "_data.csv")

PosJson(mode) == mode \o <<"_pos.json">>

PostagJson(mode) == mode \o <<"_postag.json">>

\* str(i): the decimal digits of a natural number
RECURSIVE Str(_)
Str(n) == IF n < 10 THEN <<n>> ELSE Str(n \div 10) \o <<n % 10>>

\* what nlp(text) can do on a row: raise, or return a Doc, given by its tags
Fail == <<"raise">>

Docs == UNION {[1..n -> Tags] : n \in 0..MaxTokens}

\* [token.tag_ for token in doc]
TagList(doc) == doc

\* variant: positions counted from one
PositionsFromOne(doc) == [k \in 1..Len(doc) |-> k]

\* variant: the token count itself instead of the last position
UpdateMaxPosByCount(m, doc) == Max(m, Len(doc))

\* max(max_pos, len(doc) - 1)
UpdateMaxPos(m, doc) == Max(m, Len(doc) - 1)

\* [i for i in range(len(doc))]
Positions(doc) == [k \in 1..Len(doc) |-> k - 1]

Range(s) == {s[k] : k \in 1..Len(s)}

Perms(S) == {p \in [1..Cardinality(S) -> S] : Range(p) = S}

NoRows == [sp \in 1..Len(Splits) |-> << >>]

RowsRead == Len(data[1]) + Len(data[2]) + Len(data[3])

VocabInit ==
    /\ vpc = "split"
    /\ split = 1
    /\ i = 0
    /\ pos = << >>
    /\ postag = << >>
    /\ max_pos = 0
    /\ postag_vocab = {"[PAD]"}
    /\ out = << >>
    /\ data = NoRows

\* process(): a row whose tagging succeeds
RowTagged ==
    /\ vpc = "split"
    /\ RowsRead < MaxRows
    /\ \E doc \in Docs :
          /\ postag' = WriteFile(postag, Str(i), TagList(doc))
          /\ pos' = WriteFile(pos, Str(i), Positions(doc))
          /\ max_pos' = UpdateMaxPos(max_pos, doc)
          /\ postag_vocab' = postag_vocab \cup Range(TagList(doc))
          /\ data' = [data EXCEPT ![split] = Append(@, doc)]
    /\ i' = i + 1
    /\ UNCHANGED <<vpc, split, out>>

\* variant: the failing row leaves an empty tag list behind
RowFailedPartial ==
    /\ vpc = "split"
    /\ RowsRead < MaxRows
    /\ postag' = WriteFile(postag, Str(i), << >>)
    /\ data' = [data EXCEPT ![split] = Append(@, Fail)]
    /\ i' = i + 1
    /\ UNCHANGED <<vpc, split, pos, max_pos, postag_vocab, out>>

\* process(): a row on which nlp(text) raises; the except branch continues
RowFailed ==
    /\ vpc = "split"
    /\ RowsRead < MaxRows
    /\ data' = [data EXCEPT ![split] = Append(@, Fail)]
    /\ i' = i + 1
    /\ UNCHANGED <<vpc, split, pos, postag, max_pos, postag_vocab, out>>

\* process(): the rows are exhausted, both dicts are dumped; the script calls
\* process() on the next split or goes on to the vocabularies
EndProcess ==
    /\ vpc = "split"
    /\ LET mode == Mode(DataFile(split))
       IN  out' = WriteFile(WriteFile(out, PosJson(mode), pos), PostagJson(mode), postag)
    /\ pos' = << >>
    /\ postag' = << >>
    /\ i' = 0
    /\ IF split < Len(Splits)
       THEN /\ split' = split + 1
            /\ vpc' = "split"
       ELSE /\ split' = split
            /\ vpc' = "vocab"
    /\ UNCHANGED <<max_pos, postag_vocab, data>>

\* the script: pos_vocab.txt holds 0..max_pos, postag_vocab.txt the tag set in
\* the iteration order of the set, which the language does not fix
WriteVocab ==
    /\ vpc = "vocab"
    /\ \E order \in Perms(postag_vocab) :
          out' = WriteFile(WriteFile(out, <<"pos_vocab.txt">>, [k \in 1..(max_pos + 1) |-> k - 1]),
                           <<"postag_vocab.txt">>, order)
    /\ vpc' = "done"
    /\ UNCHANGED <<split, i, pos, postag, max_pos, postag_vocab, data>>

TrainerIdle ==
    /\ pc = "off"
    /\ run = 0
    /\ args = [epochs |-> 0, save_path |-> DefaultSavePath, model_name |-> "cnn"]
    /\ epoch = 0
    /\ model = InitialWeights(0)
    /\ eval_result = NoResult
    /\ fs = << >>
    /\ dirs = {<<".">>}
    /\ used = NoWeights
    /\ written = {}
    /\ saved = NoWeights
    /\ best = NoBest
    /\ decision = None
    /\ resultSrc = << >>

VocabIdle ==
    /\ vpc = "off"
    /\ split = 1
    /\ i = 0
    /\ pos = << >>
    /\ postag = << >>
    /\ max_pos = 0
    /\ postag_vocab = {"[PAD]"}
    /\ out = << >>
    /\ data = NoRows

\* ------------------------------------------------------ specifications
Init == TrainerInit /\ VocabIdle

Next ==
    \/ StartRun /\ UNCHANGED vvars
    \/ TrainPhase /\ UNCHANGED vvars
    \/ EvalPhase /\ UNCHANGED vvars
    \/ CheckpointDecision /\ UNCHANGED vvars
    \/ LoadBest /\ UNCHANGED vvars
    \/ Predict /\ UNCHANGED vvars

Spec == Init /\ [][Next]_vars

InitVocab == VocabInit /\ TrainerIdle

NextVocab ==
    \/ RowTagged /\ UNCHANGED tvars
    \/ RowFailed /\ UNCHANGED tvars
    \/ EndProcess /\ UNCHANGED tvars
    \/ WriteVocab /\ UNCHANGED tvars

SpecVocab == InitVocab /\ [][NextVocab]_vars

\* ------------------------------------------------- properties: trainer
\* the result file and the checkpoint path of the current run
CurResult == ResultPath(args.model_name)

\* the checkpoint path the command line asks for:
\* best_{model_name}_model.pt inside the directory --save_path
SavePathCkpt == DirOf(args.save_path) \o <<"/">> \o CkptFile(args.model_name)

\* the latest checkpoint decision wrote a weights file
CkptWritten == \E p \in written : IsWeights(fs[p])

\* an epoch of the current run has just completed its checkpoint decision
EpochDone == decision # None

\* C1 -- monotonic best: after every epoch of a run the stored F1 is the
\* highest dev F1 evaluated so far in that run and a checkpoint file holds the
\* weights of an epoch that reached it.
C1_MonotonicBest ==
    EpochDone =>
        /\ CurResult \in DOMAIN fs
        /\ fs[CurResult].f1 = best.f1
        /\ \E p \in DOMAIN fs : IsWeights(fs[p]) /\ fs[p] \in best.weights

\* C2 -- updated together: a checkpoint decision writes the result file iff
\* it writes the weights file, and the stored record and the stored checkpoint
\* always come from the same evaluation.
C2_UpdatedTogether ==
    /\ (CurResult \in written) <=> CkptWritten
    /\ \A n \in ModelNames :
          ResultPath(n) \in DOMAIN fs =>
              \E p \in DOMAIN fs : IsWeights(fs[p]) /\ fs[p] = resultSrc[ResultPath(n)]

\* C3 -- overwrite only on strict improvement: a checkpoint decision that
\* finds a recorded F1 greater than or equal to the new F1 leaves every file,
\* the checkpoint and the result record included, as it was.
C3_NoOverwriteUnlessBetter ==
    [][(/\ pc = "decide"
        /\ CurResult \in DOMAIN fs
        /\ eval_result.f1 <= fs[CurResult].f1) => fs' = fs]_vars

\* C3 witness: an epoch tied with the recorded F1 while an earlier checkpoint
\* of this run was on disk; nothing was rewritten.
C3_Witness ==
    /\ decision = "equal"
    /\ saved # NoWeights
    /\ model # saved

\* C4 -- prediction runs on the best checkpoint: whenever train() persisted a
\* checkpoint in this run, predict() used exactly the weights last persisted.
C4_PredictUsesBest ==
    (pc = "done" /\ saved # NoWeights) => used = saved

\* C5 -- checkpoint location: every checkpoint write goes to
\* best_{model_name}_model.pt inside the directory --save_path.
C5_CheckpointUnderSavePath ==
    \A p \in written : IsWeights(fs[p]) => p = SavePathCkpt

\* C8 -- no prior best is not an error: a checkpoint decision that finds no
\* result file, or a strictly lower recorded F1, persists both the weights and
\* the result record.
C8_PersistsBoth ==
    decision \in {"first", "improved"} =>
        /\ CurResult \in written
        /\ \E p \in written : IsWeights(fs[p]) /\ fs[p] = model

\* C9 -- weights change only in the train phase: the eval phase, the
\* checkpoint decision and predict() leave the in-memory parameters as they
\* are, and predict() writes no file.
C9_WeightsReadOnly ==
    [][/\ pc \in {"eval", "decide", "predict"} => model' = model
       /\ pc = "predict" => fs' = fs]_vars

\* C9 witness: a run that trained, evaluated, decided and predicted.
C9_Witness ==
    /\ pc = "done"
    /\ epoch >= 1
    /\ used = model
    /\ saved # NoWeights

\* C10 -- the recorded F1 never decreases and a result file, once present, is
\* never removed, within a run and from one run to the next.
C10_RecordedF1NeverDecreases ==
    [][\A n \in ModelNames :
          ResultPath(n) \in DOMAIN fs =>
              /\ ResultPath(n) \in DOMAIN fs'
              /\ fs'[ResultPath(n)].f1 >= fs[ResultPath(n)].f1]_vars

\* C10 witness: the first epoch of a second run overwrites the record an
\* earlier run left, and a later decision of that run keeps it.
C10_Witness ==
    /\ run = 2
    /\ epoch = 2
    /\ decision \in {"equal", "lower"}
    /\ saved # NoWeights
    /\ saved.step = 1

\* ----------------------------------------- properties: vocabulary builder
\* the dicts of a split: in memory while it is processed, on disk afterwards
StoredPos(sp) ==
    IF vpc = "split" /\ sp = split THEN pos
    ELSE IF vpc = "split" /\ sp > split THEN << >>
    ELSE out[PosJson(Mode(DataFile(sp)))]

StoredPostag(sp) ==
    IF vpc = "split" /\ sp = split THEN postag
    ELSE IF vpc = "split" /\ sp > split THEN << >>
    ELSE out[PostagJson(Mode(DataFile(sp)))]

SplitIds == 1..Len(Splits)

\* rows of a split whose tagging succeeded, by position in the file (from 1)
TaggedRows(sp) == {k \in 1..Len(data[sp]) : data[sp][k] # Fail}

TokenCounts == UNION {{Len(data[sp][k]) : k \in TaggedRows(sp)} : sp \in SplitIds}

\* max(token_count) over the tagged rows; 0 when there is none
MaxTokenCount == IF TokenCounts = {} THEN 0 ELSE SetMax(TokenCounts)

\* both stored lists of every tagged row have the row's token count as their
\* length, and the positions are 0..n-1
ListsMatchTokens ==
    \A sp \in SplitIds : \A k \in TaggedRows(sp) :
        /\ Str(k - 1) \in DOMAIN StoredPos(sp) \cap DOMAIN StoredPostag(sp)
        /\ Len(StoredPos(sp)[Str(k - 1)]) = Len(data[sp][k])
        /\ Len(StoredPostag(sp)[Str(k - 1)]) = Len(data[sp][k])
        /\ \A j \in 1..Len(data[sp][k]) : StoredPos(sp)[Str(k - 1)][j] = j - 1

\* C6 as stated -- lists match the token count and, after the three splits,
\* max_pos = max(token_count) - 1 over all tagged rows, also when every tagged
\* row is empty or no row is tagged.
C6_MaxPosIsMaxMinusOne ==
    /\ ListsMatchTokens
    /\ vpc \in {"vocab", "done"} => max_pos = MaxTokenCount - 1

\* C6 amended -- lists match the token count and, after the three splits,
\* max_pos = max(token_count) - 1 when some tagged row has a token, and 0 when
\* every tagged row is empty or no row is tagged.
C6_MaxPosFloorZero ==
    /\ ListsMatchTokens
    /\ vpc \in {"vocab", "done"} => max_pos = Max(0, MaxTokenCount - 1)

\* C6 witness: all three splits processed, rows of different lengths tagged
\* in different splits, the longer one first.
C6_Witness ==
    /\ vpc = "done"
    /\ max_pos = 1
    /\ TokenCounts = {1, 2}
    /\ TaggedRows(1) # {}
    /\ TaggedRows(3) # {}
    /\ Len(data[1][1]) = 2

\* C7 -- error policy: a row whose tagging raises has no entry in either
\* dict, both dicts have the indices of the tagged rows as their keys, every
\* tagged row's entry is what that row alone determines, and only tagged rows
\* reach max_pos and postag_vocab; rows after a failure are still processed.
C7_FailedRowLeavesNoTrace ==
    /\ \A sp \in SplitIds :
          /\ DOMAIN StoredPos(sp) = {Str(k - 1) : k \in TaggedRows(sp)}
          /\ DOMAIN StoredPostag(sp) = {Str(k - 1) : k \in TaggedRows(sp)}
          /\ \A k \in TaggedRows(sp) :
                /\ StoredPostag(sp)[Str(k - 1)] = data[sp][k]
                /\ StoredPos(sp)[Str(k - 1)] = [j \in 1..Len(data[sp][k]) |-> j - 1]
    /\ max_pos = Max(0, MaxTokenCount - 1)
    /\ postag_vocab =
          {"[PAD]"} \cup UNION {UNION {Range(data[sp][k]) : k \in TaggedRows(sp)} : sp \in SplitIds}

\* C7 witness: a split whose first row failed and whose second row was tagged
\* and stored under its own index.
C7_Witness ==
    /\ vpc = "done"
    /\ \E sp \in SplitIds :
          /\ Len(data[sp]) >= 2
          /\ data[sp][1] = Fail
          /\ data[sp][2] \in Docs
          /\ Len(data[sp][2]) = 2
          /\ DOMAIN StoredPostag(sp) = {Str(1)}

====
